---- MODULE Spec2Model ----
(***************************************************************************)
(* Model of the Product Browser component of src/src/App.tsx: the product  *)
(* store filled by one fetch, the 300ms search debouncer, the memoized     *)
(* name filter and the per-image status map.                               *)
(*                                                                         *)
(* Strings are sequences of one-character strings.  Time advances in steps *)
(* of TickMs milliseconds.  A timer whose remaining time is 0 is due; the  *)
(* event loop may still run another callback before it (a timer fires no   *)
(* earlier than its delay, possibly later).  Every action is one callback  *)
(* of the event loop followed by the re-render it causes.                  *)
(***************************************************************************)
EXTENDS Integers, Sequences, FiniteSets

\* ------------------------------------------------------------------ bounds
MaxQueryLen == 1
MaxTimers == 3
TickMs == 150

\* the debounce delay passed to setTimeout, in milliseconds
Delay == 300

\* ------------------------------------------------------------ input alphabet
Chars == {"a", "B"}

RECURSIVE StringsUpTo(_)
StringsUpTo(n) ==
  IF n = 0 THEN {<<>>}
  ELSE LET shorter == StringsUpTo(n - 1)
       IN  shorter \cup {Append(s, c) : s \in {x \in shorter : Len(x) = n - 1}, c \in Chars}

\* the values event.target.value takes
Queries == StringsUpTo(MaxQueryLen)

\* a fetched product; productPrice and productImage are only rendered, never read
Product(id, name) == [productId |-> id, productName |-> name]

ProductIds == {"1", "2"}

\* the bodies {products: [...]} the endpoint answers with
FetchedLists ==
  { <<>>,
    <<Product("1", <<"A", "b">>), Product("2", <<"b">>)>>,
    <<Product("1", <<"b">>), Product("2", <<"B", "A">>)>>,
    <<Product("2", <<"b", "A">>), Product("1", <<"B">>)>> }

FailureKinds == {"non2xx", "fetchThrows", "jsonThrows"}

\* ------------------------------------------------------------------- state
VARIABLES
  products,            \* useState<Product[]>([])
  searchKey,           \* useState<string>("")
  debouncedSearchKey,  \* useState<string>(searchKey)
  imageLoading,        \* useState<ImageLoadingState>({}); "undefined" = no entry
  filteredProducts,    \* the value cached by useMemo
  timers,              \* pending setTimeout tasks: [id, payload, remaining]
  handler,             \* the timer handle held by the current debounce effect
  nextHandle,          \* the next handle setTimeout returns
  mounted,             \* FALSE once the component is torn down
  fetchState,          \* where fetchProducts is: "pending" (at await fetch) |
                       \*   "reading" (at await response.json()) | "ok" | "failed"
  imgs,                \* per product id, the <img> element: "none" | "loading" | "loaded" | "failed"
  quiet,               \* history: ms since searchKey last changed, capped at Delay
  typed,               \* history: every value searchKey has held
  lastFired,           \* history: handle of the last timer that fired, 0 if none
  burstUpdates,        \* history: timer fires since the current burst of changes began
  burstChanges,        \* history: changes of searchKey in the current burst
  prevStatus,          \* history: per product id, imageLoading[id] before its last signal
  lastInput,           \* history: the value of the last input event
  fetchesIssued,       \* history: calls of fetch(...) made so far
  responseWhen,        \* history: when the 2xx response arrived: "none" | "mounted" |
                       \*          "afterTeardown"
  storedWhen           \* history: when setProducts was called: "none" | "beforeFire" |
                       \*          "afterFire" (a typed value had been emitted) | "afterTeardown"

vars == <<products, searchKey, debouncedSearchKey, imageLoading, filteredProducts,
          timers, handler, nextHandle, mounted, fetchState, imgs,
          quiet, typed, lastFired, burstUpdates, burstChanges, prevStatus, lastInput,
          fetchesIssued, responseWhen, storedWhen>>

\* ------------------------------------------------------------ pure helpers
Min(a, b) == IF a < b THEN a ELSE b
Max(a, b) == IF a > b THEN a ELSE b

\* String.prototype.toLowerCase on one character
LowerChar(c) ==
  CASE c = "A" -> "a"
    [] c = "B" -> "b"
    [] OTHER -> c

\* String.prototype.toLowerCase
ToLowerCase(s) == [i \in 1..Len(s) |-> LowerChar(s[i])]

IncludesPrefixOnly(s, sub) ==
  /\ Len(sub) <= Len(s)
  /\ SubSeq(s, 1, Len(sub)) = sub

\* String.prototype.includes: sub occurs in s at some position
Includes(s, sub) ==
  \E k \in 0..(Len(s) - Len(sub)) : SubSeq(s, k + 1, k + Len(sub)) = sub

\* the predicate handed to products.filter
MatchesSearch(product, key) ==
  Includes(ToLowerCase(product.productName), ToLowerCase(key))

\* products.filter(predicate): Array.prototype.filter keeps order
FilteredProducts(prods, key) ==
  SelectSeq(prods, LAMBDA p : MatchesSearch(p, key))

UseMemoKeyDepMissing(cached, oldDeps, newDeps, value) ==
  IF oldDeps[2] # newDeps[2] THEN value ELSE cached

UseMemoProductsDepMissing(cached, oldDeps, newDeps, value) ==
  IF oldDeps[1] # newDeps[1] THEN value ELSE cached

\* useMemo(..., [debouncedSearchKey, products]): recompute when a dependency changed
UseMemo(cached, oldDeps, newDeps, value) ==
  IF oldDeps # newDeps THEN value ELSE cached

\* a state setter: React drops updates of a component that is no longer mounted
SetState(isMounted, old, new) == IF isMounted THEN new ELSE old

ScheduleTimerNoDelay(ts, h, key) ==
  ts \cup {[id |-> h, payload |-> key, remaining |-> 0]}

\* setTimeout(callback, 300): a new pending task with a fresh handle
ScheduleTimer(ts, h, key) ==
  ts \cup {[id |-> h, payload |-> key, remaining |-> Delay]}

ClearTimeoutNoop(ts, h) == ts

\* clearTimeout(handler)
ClearTimeout(ts, h) == {t \in ts : t.id # h}

DebounceCallbackLowered(t) == ToLowerCase(t.payload)

\* the value the timer callback passes to setDebouncedSearchKey: the searchKey
\* captured by the effect that scheduled it
DebounceCallback(t) == t.payload

HandleImageLoadWithoutSpread(prevState, productId) ==
  [id \in ProductIds |-> IF id = productId THEN "false" ELSE "undefined"]

HandleImageLoadKeepsError(prevState, productId) ==
  IF prevState[productId] = "error" THEN prevState
  ELSE [prevState EXCEPT ![productId] = "false"]

\* handleImageLoad's updater
HandleImageLoad(prevState, productId) == [prevState EXCEPT ![productId] = "false"]

HandleImageErrorWithoutSpread(prevState, productId) ==
  [id \in ProductIds |-> IF id = productId THEN "error" ELSE "undefined"]

HandleImageErrorDeletesEntry(prevState, productId) ==
  [prevState EXCEPT ![productId] = "undefined"]

\* handleImageError's updater
HandleImageError(prevState, productId) == [prevState EXCEPT ![productId] = "error"]

\* {imageLoading[id] !== false && <div className="placeholder">...}
PlaceholderShown(status) == status # "false"

\* inside the placeholder: imageLoading[id] === "error" ? "Image not available" : spinner
ErrorTextShown(status) == PlaceholderShown(status) /\ status = "error"

SpinnerShown(status) == PlaceholderShown(status) /\ status # "error"

ImageVisibleUnlessError(status) == status # "error"

\* style={imageLoading[id] === false ? {} : { display: "none" }}
ImageVisible(status) == status = "false"

DisplayedIds(list) == {list[i].productId : i \in 1..Len(list)}

\* the <img> elements after rendering `list`: a card keyed by productId keeps its
\* element, a new card gets a new element that starts loading, a removed card
\* loses its element
RenderImgs(old, list, isMounted) ==
  [id \in ProductIds |->
     IF isMounted /\ id \in DisplayedIds(list)
     THEN (IF old[id] = "none" THEN "loading" ELSE old[id])
     ELSE "none"]

RenderFiltersByRawKey ==
  /\ filteredProducts' =
       IF mounted'
       THEN UseMemo(filteredProducts, <<searchKey, products>>,
                    <<searchKey', products'>>,
                    FilteredProducts(products', searchKey'))
       ELSE filteredProducts
  /\ imgs' = RenderImgs(imgs, filteredProducts', mounted')

\* the re-render after a state change: the memo and the cards
Render ==
  /\ filteredProducts' =
       IF mounted'
       THEN UseMemo(filteredProducts, <<debouncedSearchKey, products>>,
                    <<debouncedSearchKey', products'>>,
                    FilteredProducts(products', debouncedSearchKey'))
       ELSE filteredProducts
  /\ imgs' = RenderImgs(imgs, filteredProducts', mounted')

\* -------------------------------------------------------------------- Init
Init ==
  /\ products = <<>>
  /\ searchKey = <<>>
  /\ debouncedSearchKey = <<>>
  /\ imageLoading = [id \in ProductIds |-> "undefined"]
  /\ filteredProducts = <<>>
  /\ timers = ScheduleTimer({}, 1, <<>>)
  /\ handler = 1
  /\ nextHandle = 2
  /\ mounted = TRUE
  /\ fetchState = "pending"
  /\ imgs = [id \in ProductIds |-> "none"]
  /\ quiet = 0
  /\ typed = {<<>>}
  /\ lastFired = 0
  /\ burstUpdates = 0
  /\ burstChanges = 0
  /\ prevStatus = [id \in ProductIds |-> "undefined"]
  /\ lastInput = <<>>
  /\ fetchesIssued = 1
  /\ responseWhen = "none"
  /\ storedWhen = "none"

\* ----------------------------------------------------------------- actions
\* onChange of the search input, then the debounce effect's cleanup and re-run
Keystroke(v) ==
  /\ mounted
  /\ lastInput' = v
  /\ UNCHANGED <<fetchesIssued, responseWhen, storedWhen>>
  /\ IF v = searchKey
     THEN UNCHANGED <<products, searchKey, debouncedSearchKey, imageLoading,
                      filteredProducts, timers, handler, nextHandle, mounted,
                      fetchState, imgs, quiet, typed, lastFired, burstUpdates,
                      burstChanges, prevStatus>>
     ELSE /\ nextHandle <= MaxTimers
          /\ searchKey' = v
          /\ timers' = ScheduleTimer(ClearTimeout(timers, handler), nextHandle, v)
          /\ handler' = nextHandle
          /\ nextHandle' = nextHandle + 1
          /\ quiet' = 0
          /\ typed' = typed \cup {v}
          /\ burstUpdates' = IF quiet >= Delay THEN 0 ELSE burstUpdates
          /\ burstChanges' = IF quiet >= Delay THEN 1 ELSE burstChanges + 1
          /\ UNCHANGED <<products, debouncedSearchKey, imageLoading, mounted,
                         fetchState, lastFired, prevStatus>>
          /\ Render

\* TickMs milliseconds pass
Tick ==
  /\ timers' = {[t EXCEPT !.remaining = Max(0, t.remaining - TickMs)] : t \in timers}
  /\ quiet' = Min(Delay, quiet + TickMs)
  /\ UNCHANGED <<lastInput, fetchesIssued, responseWhen, storedWhen>>
  /\ UNCHANGED <<products, searchKey, debouncedSearchKey, imageLoading,
                 filteredProducts, handler, nextHandle, mounted, fetchState,
                 imgs, typed, lastFired, burstUpdates, burstChanges, prevStatus>>

\* a due timer runs its callback
TimerFire(t) ==
  /\ t \in timers
  /\ t.remaining = 0
  /\ timers' = timers \ {t}
  /\ debouncedSearchKey' = SetState(mounted, debouncedSearchKey, DebounceCallback(t))
  /\ lastFired' = t.id
  /\ burstUpdates' = burstUpdates + 1
  /\ UNCHANGED <<lastInput, fetchesIssued, responseWhen, storedWhen>>
  /\ UNCHANGED <<products, searchKey, imageLoading, handler, nextHandle, mounted,
                 fetchState, quiet, typed, burstChanges, prevStatus>>
  /\ Render

\* the await at which each failure surfaces
FailsAt(kind) == IF kind = "jsonThrows" THEN "reading" ELSE "pending"

\* the continuation of await fetch with a 2xx status: response.ok is read,
\* response.json() is called and fetchProducts suspends again
FetchResponse ==
  /\ fetchState = "pending"
  /\ fetchState' = "reading"
  /\ responseWhen' = IF mounted THEN "mounted" ELSE "afterTeardown"
  /\ UNCHANGED <<products, searchKey, debouncedSearchKey, imageLoading,
                 filteredProducts, timers, handler, nextHandle, mounted, imgs,
                 quiet, typed, lastFired, burstUpdates, burstChanges, prevStatus,
                 lastInput, fetchesIssued, storedWhen>>

FetchOkRefetches(list) ==
  /\ fetchState = "reading"
  /\ fetchesIssued < 3
  /\ fetchState' = "pending"
  /\ fetchesIssued' = fetchesIssued + 1
  /\ products' = SetState(mounted, products, list)
  /\ storedWhen' = IF ~mounted THEN "afterTeardown"
                   ELSE IF handler >= 2 /\ lastFired = handler THEN "afterFire"
                   ELSE "beforeFire"
  /\ UNCHANGED responseWhen
  /\ UNCHANGED <<searchKey, debouncedSearchKey, imageLoading, timers, handler,
                 nextHandle, mounted, quiet, typed, lastFired, burstUpdates,
                 burstChanges, prevStatus, lastInput>>
  /\ Render

\* the continuation of await response.json(): the body was read and
\* setProducts(jsonData.products) is called
FetchOk(list) ==
  /\ fetchState = "reading"
  /\ fetchState' = "ok"
  /\ products' = SetState(mounted, products, list)
  /\ storedWhen' = IF ~mounted THEN "afterTeardown"
                   ELSE IF handler >= 2 /\ lastFired = handler THEN "afterFire"
                   ELSE "beforeFire"
  /\ UNCHANGED <<lastInput, fetchesIssued, responseWhen>>
  /\ UNCHANGED <<searchKey, debouncedSearchKey, imageLoading, timers, handler,
                 nextHandle, mounted, quiet, typed, lastFired, burstUpdates,
                 burstChanges, prevStatus>>
  /\ Render

FetchFailRetries(kind) ==
  /\ fetchState = FailsAt(kind)
  /\ fetchesIssued < 3
  /\ fetchesIssued' = fetchesIssued + 1
  /\ fetchState' = "pending"
  /\ UNCHANGED <<products, searchKey, debouncedSearchKey, imageLoading,
                 filteredProducts, timers, handler, nextHandle, mounted,
                 imgs, quiet, typed, lastFired, burstUpdates, burstChanges,
                 prevStatus, lastInput, responseWhen, storedWhen>>

\* fetch rejects or the status is not 2xx (continuation of await fetch), or
\* response.json() rejects (continuation of the second await): caught and logged
FetchFail(kind) ==
  /\ fetchState = FailsAt(kind)
  /\ fetchState' = "failed"
  /\ UNCHANGED <<lastInput, fetchesIssued, responseWhen, storedWhen>>
  /\ UNCHANGED <<products, searchKey, debouncedSearchKey, imageLoading,
                 filteredProducts, timers, handler, nextHandle, mounted, imgs,
                 quiet, typed, lastFired, burstUpdates, burstChanges, prevStatus>>

\* onLoad of the <img> of a displayed card
ImageLoad(id) ==
  /\ mounted
  /\ imgs[id] = "loading"
  /\ imageLoading' = HandleImageLoad(imageLoading, id)
  /\ imgs' = [imgs EXCEPT ![id] = "loaded"]
  /\ prevStatus' = [prevStatus EXCEPT ![id] = imageLoading[id]]
  /\ UNCHANGED <<lastInput, fetchesIssued, responseWhen, storedWhen>>
  /\ UNCHANGED <<products, searchKey, debouncedSearchKey, filteredProducts, timers,
                 handler, nextHandle, mounted, fetchState, quiet, typed, lastFired,
                 burstUpdates, burstChanges>>

\* onError of the <img> of a displayed card
ImageError(id) ==
  /\ mounted
  /\ imgs[id] = "loading"
  /\ imageLoading' = HandleImageError(imageLoading, id)
  /\ imgs' = [imgs EXCEPT ![id] = "failed"]
  /\ prevStatus' = [prevStatus EXCEPT ![id] = imageLoading[id]]
  /\ UNCHANGED <<lastInput, fetchesIssued, responseWhen, storedWhen>>
  /\ UNCHANGED <<products, searchKey, debouncedSearchKey, filteredProducts, timers,
                 handler, nextHandle, mounted, fetchState, quiet, typed, lastFired,
                 burstUpdates, burstChanges>>

UnmountAbortsFetch ==
  /\ mounted
  /\ mounted' = FALSE
  /\ timers' = ClearTimeout(timers, handler)
  /\ fetchState' = IF fetchState \in {"pending", "reading"} THEN "failed" ELSE fetchState
  /\ imgs' = [id \in ProductIds |-> "none"]
  /\ UNCHANGED <<products, searchKey, debouncedSearchKey, imageLoading,
                 filteredProducts, handler, nextHandle, quiet, typed, lastFired,
                 burstUpdates, burstChanges, prevStatus, lastInput, fetchesIssued,
                 responseWhen, storedWhen>>

UnmountWithoutCleanup ==
  /\ mounted
  /\ mounted' = FALSE
  /\ imgs' = [id \in ProductIds |-> "none"]
  /\ UNCHANGED <<lastInput, fetchesIssued, responseWhen, storedWhen>>
  /\ UNCHANGED <<products, searchKey, debouncedSearchKey, imageLoading,
                 filteredProducts, timers, handler, nextHandle, fetchState, quiet,
                 typed, lastFired, burstUpdates, burstChanges, prevStatus>>

\* the component is torn down: the debounce effect's cleanup runs
Unmount ==
  /\ mounted
  /\ mounted' = FALSE
  /\ timers' = ClearTimeout(timers, handler)
  /\ imgs' = [id \in ProductIds |-> "none"]
  /\ UNCHANGED <<lastInput, fetchesIssued, responseWhen, storedWhen>>
  /\ UNCHANGED <<products, searchKey, debouncedSearchKey, imageLoading,
                 filteredProducts, handler, nextHandle, fetchState, quiet, typed,
                 lastFired, burstUpdates, burstChanges, prevStatus>>

Next ==
  \/ \E v \in Queries : Keystroke(v)
  \/ Tick
  \/ \E t \in timers : TimerFire(t)
  \/ FetchResponse
  \/ \E list \in FetchedLists : FetchOk(list)
  \/ \E kind \in FailureKinds : FetchFail(kind)
  \/ \E id \in ProductIds : ImageLoad(id)
  \/ \E id \in ProductIds : ImageError(id)
  \/ Unmount

Spec == Init /\ [][Next]_vars

\* the event loop keeps running: time passes and a due timer is eventually run
FairSpec ==
  /\ Spec
  /\ WF_vars(Tick)
  /\ WF_vars(\E t \in timers : TimerFire(t))

TypeOK ==
  /\ searchKey \in Queries
  /\ debouncedSearchKey \in Queries
  /\ products \in FetchedLists
  /\ mounted \in BOOLEAN
  /\ fetchState \in {"pending", "reading", "ok", "failed"}
  /\ imageLoading \in [ProductIds -> {"undefined", "false", "error"}]
  /\ imgs \in [ProductIds -> {"none", "loading", "loaded", "failed"}]
  /\ quiet \in 0..Delay
  /\ nextHandle \in 2..(MaxTimers + 1)

\* ------------------------------------------------------- search debouncer
\* C1: under FairSpec, from every state where the component is mounted, time
\* has passed since the last change of searchKey and the timer of that change
\* has not yet delivered it, eventually that timer fires and debouncedSearchKey
\* equals searchKey, unless searchKey changes again (quiet is reset) or the
\* component is torn down first; and once the two are equal, no step that
\* keeps the effect's handle (no new change) makes them differ.
C1_ConvergesAndStays ==
  /\ (mounted /\ quiet > 0 /\ ~(debouncedSearchKey = searchKey /\ lastFired = handler))
       ~> ((debouncedSearchKey = searchKey /\ lastFired = handler) \/ quiet = 0 \/ ~mounted)
  /\ [][(debouncedSearchKey = searchKey /\ handler' = handler)
          => debouncedSearchKey' = searchKey']_vars

\* a typed, non-empty value has reached debouncedSearchKey through its own timer
C1_Witness ==
  /\ mounted
  /\ searchKey # <<>>
  /\ debouncedSearchKey = searchKey
  /\ lastFired = handler

\* C2: in every reachable state debouncedSearchKey is a value searchKey has held
\* (the initial empty string included).
C2_DebouncedWasTyped == debouncedSearchKey \in typed

\* debouncedSearchKey holds an earlier, non-empty value of searchKey
C2_Witness ==
  /\ debouncedSearchKey # <<>>
  /\ debouncedSearchKey # searchKey
  /\ lastFired # 0

\* C3: a burst of changes of searchKey, each less than Delay after the previous
\* one, gets at most one timer fire, and that fire is the one scheduled by the
\* last change of the burst and leaves debouncedSearchKey = searchKey.
C3_OneUpdatePerBurst ==
  /\ burstUpdates <= 1
  /\ burstUpdates = 1 => (debouncedSearchKey = searchKey /\ lastFired = handler)

\* a burst of at least two changes has received its single update
C3_Witness ==
  /\ burstChanges >= 2
  /\ burstUpdates = 1
  /\ debouncedSearchKey = searchKey

\* C4: at most one debounce timer is pending, it is the one held by the current
\* effect and its payload is searchKey; and a timer that fires is the one
\* scheduled by the last change, never a superseded one.
C4_SinglePendingTimer ==
  /\ [](/\ Cardinality(timers) <= 1
        /\ \A t \in timers : t.id = handler /\ t.payload = searchKey)
  /\ [][lastFired' # lastFired => (lastFired' = handler /\ mounted)]_vars

\* two timers have been superseded without firing and the third is pending
C4_Witness ==
  /\ handler >= 3
  /\ lastFired = 0
  /\ Cardinality(timers) = 1
  /\ quiet >= Delay

\* C5: after teardown no timer is pending, no timer fires and
\* debouncedSearchKey never changes.
C5_NoEmissionAfterTeardown ==
  /\ [](~mounted => timers = {})
  /\ [][~mounted => (lastFired' = lastFired /\ debouncedSearchKey' = debouncedSearchKey)]_vars

\* torn down with a value typed but not yet emitted, and the quiet interval has
\* since elapsed
C5_Witness ==
  /\ ~mounted
  /\ searchKey # debouncedSearchKey
  /\ lastFired # handler
  /\ quiet >= Delay

\* C6: an input event sets searchKey to the typed value and leaves
\* debouncedSearchKey alone; debouncedSearchKey changes only in a timer-fire
\* step, taken when searchKey has been unchanged for at least Delay ms, and
\* that step leaves searchKey alone.
C6_RawSyncDebouncedLate ==
  [][/\ (searchKey' # searchKey \/ lastInput' # lastInput) =>
          (searchKey' = lastInput' /\ debouncedSearchKey' = debouncedSearchKey)
     /\ debouncedSearchKey' # debouncedSearchKey =>
          (/\ lastFired' # lastFired
           /\ quiet >= Delay
           /\ searchKey' = searchKey
           /\ debouncedSearchKey' = searchKey)]_vars

\* a keystroke has just changed searchKey after an earlier timer fire changed
\* debouncedSearchKey
C6_Witness ==
  /\ searchKey = lastInput
  /\ quiet = 0
  /\ debouncedSearchKey # <<>>
  /\ debouncedSearchKey # searchKey

\* ---------------------------------------------------------- product filter
\* C7: for the fetched list and every query, FilteredProducts is the list of the
\* products whose name contains the query at some position, letters compared
\* without regard to case, taken in increasing position of the product list:
\* nothing added, duplicated, reordered or left out.
C7_FilterIsMatchingSubsequence ==
  LET same(c, d) == c = d \/ {c, d} = {"a", "A"} \/ {c, d} = {"b", "B"}
      contains(name, q) ==
        \E k \in 0..(Len(name) - Len(q)) : \A j \in 1..Len(q) : same(name[k + j], q[j])
      matching(q) == {i \in 1..Len(products) : contains(products[i].productName, q)}
  IN  \A q \in Queries :
        LET out == FilteredProducts(products, q)
        IN  /\ Len(out) = Cardinality(matching(q))
            /\ \E f \in [1..Len(out) -> matching(q)] :
                 /\ \A a, b \in 1..Len(out) : a < b => f[a] < f[b]
                 /\ \A a \in 1..Len(out) : out[a] = products[f[a]]

\* the displayed list is the second of two products: the first does not match
\* the query, the second matches it inside its name or in another case
C7_Witness ==
  /\ Len(products) = 2
  /\ debouncedSearchKey # <<>>
  /\ filteredProducts = <<products[2]>>
  /\ products[2].productName[1] # debouncedSearchKey[1]

\* C8: filtering any fetched list with the empty query returns the list itself,
\* and whenever debouncedSearchKey is empty the displayed list is the product list.
C8_EmptyQueryShowsAll ==
  /\ FilteredProducts(products, <<>>) = products
  /\ debouncedSearchKey = <<>> => filteredProducts = products

\* a non-empty product list is displayed whole under the empty query, after a
\* non-empty query had been applied and cleared again
C8_Witness ==
  /\ Len(products) = 2
  /\ debouncedSearchKey = <<>>
  /\ filteredProducts = products
  /\ lastFired >= 3

\* ----------------------------------------------------- image status tracker
\* C9 as stated: the only status changes are pending -> loaded and
\* pending -> error; a loaded or error status never changes again.
C9_OnlyFromPending ==
  [][\A id \in ProductIds :
       imageLoading'[id] # imageLoading[id] =>
         (imageLoading[id] = "undefined" /\ imageLoading'[id] \in {"false", "error"})]_vars

\* C9 amended: a status never goes back to pending (a status that is loaded or
\* error stays loaded or error), and every change of a status is the one signal
\* of an image element that was loading; the signal of a re-mounted image may
\* turn loaded into error or error into loaded.
C9_NeverBackToPending ==
  [][\A id \in ProductIds :
       /\ imageLoading[id] # "undefined" => imageLoading'[id] \in {"false", "error"}
       /\ imageLoading'[id] # imageLoading[id] =>
            (imgs[id] = "loading" /\ imgs'[id] \in {"loaded", "failed"})]_vars

\* the image of an id whose status was error was re-mounted and loaded
C9_Witness ==
  \E id \in ProductIds :
    /\ prevStatus[id] = "error"
    /\ imageLoading[id] = "false"
    /\ imgs[id] = "loaded"

\* C10: the last signal decides: a load signal for an id leaves its status
\* loaded and an error signal leaves it error, whatever the status was before
\* (pending, loaded or error).
C10_LastWriterWins ==
  [][\A id \in ProductIds :
       /\ (imgs[id] = "loading" /\ imgs'[id] = "loaded") => imageLoading'[id] = "false"
       /\ (imgs[id] = "loading" /\ imgs'[id] = "failed") => imageLoading'[id] = "error"]_vars

\* an error signal has overwritten a loaded status
C10_Witness ==
  \E id \in ProductIds :
    /\ prevStatus[id] = "false"
    /\ imageLoading[id] = "error"
    /\ imgs[id] = "failed"

\* C11: for every displayed product id exactly one of the three renderings is
\* shown and the status of the id decides which: no entry -> spinner inside the
\* placeholder, image hidden; error -> the text "Image not available" inside the
\* placeholder, image hidden; loaded -> no placeholder, image visible.
C11_OneRenderingPerCard ==
  \A id \in DisplayedIds(filteredProducts) :
    LET status == imageLoading[id]
        shown == {r \in {"spinner", "errorText", "image"} :
                    \/ r = "spinner" /\ SpinnerShown(status)
                    \/ r = "errorText" /\ ErrorTextShown(status)
                    \/ r = "image" /\ ImageVisible(status)}
    IN  /\ status = "undefined" => shown = {"spinner"}
        /\ status = "error" => shown = {"errorText"}
        /\ status = "false" => shown = {"image"}
        /\ Cardinality(shown) = 1
        /\ ImageVisible(status) => ~PlaceholderShown(status)

\* two cards are displayed, one still pending and one whose image failed
C11_Witness ==
  /\ mounted
  /\ Len(filteredProducts) = 2
  /\ \E id \in ProductIds : imageLoading[id] = "undefined" /\ imgs[id] = "loading"
  /\ \E id \in ProductIds : imageLoading[id] = "error" /\ imgs[id] = "failed"

\* C12: no step removes an entry of the image status map: the set of ids that
\* have an entry only grows, also while the card of an id is filtered out.
C12_EntriesNeverRemoved ==
  [][{id \in ProductIds : imageLoading[id] # "undefined"}
       \subseteq {id \in ProductIds : imageLoading'[id] # "undefined"}]_vars

\* a product of the list has an entry while its card is filtered out, and the
\* other product has an entry too
C12_Witness ==
  /\ mounted
  /\ \A id \in ProductIds : imageLoading[id] # "undefined"
  /\ \E id \in DisplayedIds(products) : imgs[id] = "none"

\* --------------------------------------------------------------- product store
\* C13: a failed fetch (rejected fetch, non-2xx status, unreadable body) changes
\* nothing but the state of the request: the product list and the displayed list
\* are empty in every later state, the queries, the timers and the image status
\* map are untouched by the failure, the request stays failed and only the one
\* fetch of the mount effect is ever issued.
C13_FetchFailureLeavesEmpty ==
  /\ [](fetchState = "failed" => (products = <<>> /\ filteredProducts = <<>>))
  /\ [](fetchesIssued = 1)
  /\ [][(fetchState # "failed" /\ fetchState' = "failed") =>
          UNCHANGED <<products, searchKey, debouncedSearchKey, imageLoading,
                      filteredProducts, timers, handler, mounted, imgs>>]_vars
  /\ [][fetchState = "failed" => fetchState' = "failed"]_vars

\* the fetch has failed and the component went on: a typed value was emitted
C13_Witness ==
  /\ fetchState = "failed"
  /\ mounted
  /\ debouncedSearchKey # <<>>
  /\ products = <<>>

\* C14: exactly one fetch is issued, and products changes at most once: only in
\* the step that handles the 2xx response, from the empty list to the fetched
\* list; keystrokes, timer fires, image events and teardown never change it.
C14_ProductsSetAtMostOnce ==
  /\ [](fetchesIssued = 1 /\ (fetchState # "ok" => products = <<>>))
  /\ [][products' # products =>
          (/\ products = <<>>
           /\ fetchState = "reading"
           /\ fetchState' = "ok"
           /\ products' \in FetchedLists)]_vars
  /\ [][/\ fetchState \in {"ok", "failed"} => fetchState' = fetchState
       /\ fetchState = "reading" => fetchState' # "pending"]_vars

\* the fetched list is in place after keystrokes, timer fires and image events
C14_Witness ==
  /\ products # <<>>
  /\ fetchState = "ok"
  /\ lastFired >= 2
  /\ searchKey # debouncedSearchKey
  /\ \E id \in ProductIds : imageLoading[id] # "undefined"

\* C15: filteredProducts changes only in a step that changes products or
\* debouncedSearchKey; a step that changes searchKey, and an image load/error
\* step, leave it unchanged.
C15_FilteredChangesOnlyWithDeps ==
  [][/\ filteredProducts' # filteredProducts =>
          (products' # products \/ debouncedSearchKey' # debouncedSearchKey)
     /\ searchKey' # searchKey => filteredProducts' = filteredProducts
     /\ (\E id \in ProductIds : imgs[id] = "loading" /\ imgs'[id] \in {"loaded", "failed"})
          => filteredProducts' = filteredProducts]_vars

\* a typed value that would filter the list differently has not been emitted
\* yet, and an image event has happened: the displayed list is still the old one
C15_Witness ==
  /\ mounted
  /\ searchKey # debouncedSearchKey
  /\ FilteredProducts(products, searchKey) # filteredProducts
  /\ \E id \in ProductIds : imageLoading[id] = "false"

\* C16: teardown cancels the debounce timer but not the fetch: the teardown step
\* leaves the request as it was, a request still in flight after teardown can
\* still be answered and its body read, and the continuation that follows a
\* readable body after teardown runs and calls setProducts (React discards the
\* update of a component that is no longer mounted).
C16_FetchSurvivesTeardown ==
  /\ [][(mounted /\ ~mounted') => (fetchState' = fetchState /\ timers' = {})]_vars
  /\ []((~mounted /\ fetchState = "pending") => ENABLED FetchResponse)
  /\ []((~mounted /\ fetchState = "reading") =>
          ENABLED (\E list \in FetchedLists : FetchOk(list)))
  /\ [][(~mounted /\ fetchState' = "ok" /\ fetchState # "ok") =>
          (storedWhen' = "afterTeardown" /\ timers' = {}
           /\ debouncedSearchKey' = debouncedSearchKey)]_vars

\* the component was torn down with the fetch in flight and a typed value not
\* yet emitted; the 2xx response arrived afterwards and its body was handled
C16_Witness ==
  /\ ~mounted
  /\ fetchState = "ok"
  /\ responseWhen = "afterTeardown"
  /\ storedWhen = "afterTeardown"
  /\ searchKey # debouncedSearchKey

\* C17: in every reachable state the displayed list is the filter of the current
\* products by the current debouncedSearchKey; so once both the response body
\* and the timer of the last typed value have been handled, the displayed list
\* is the filter of the fetched list by the typed value, whichever came first.
C17_DisplayedIsFilterOfState ==
  /\ filteredProducts = FilteredProducts(products, debouncedSearchKey)
  /\ (storedWhen \in {"beforeFire", "afterFire"} /\ lastFired = handler) =>
       filteredProducts = FilteredProducts(products, searchKey)

\* the timer of a typed value fired first, the list was stored second, and the
\* displayed list is the filtered list
C17_Witness ==
  /\ storedWhen = "afterFire"
  /\ lastFired = handler
  /\ searchKey # <<>>
  /\ Len(products) = 2
  /\ Len(filteredProducts) = 1

\* C18: an image load or error step for an id changes no other entry of the
\* image status map and leaves products, searchKey, debouncedSearchKey, the
\* displayed list and the pending debounce timer unchanged.
C18_ImageEventTouchesOneEntry ==
  [][\A id \in ProductIds :
       (imgs[id] = "loading" /\ imgs'[id] \in {"loaded", "failed"}) =>
         /\ \A other \in ProductIds \ {id} :
              imageLoading'[other] = imageLoading[other] /\ imgs'[other] = imgs[other]
         /\ UNCHANGED <<products, searchKey, debouncedSearchKey, filteredProducts,
                        timers, handler, fetchState, mounted>>]_vars

\* both ids have received a signal, with different outcomes, while a debounce
\* timer is pending and the fetched list is in place
C18_Witness ==
  /\ imageLoading["1"] # "undefined"
  /\ imageLoading["2"] # "undefined"
  /\ imageLoading["1"] # imageLoading["2"]
  /\ timers # {}
  /\ Len(products) = 2

====
